---- MODULE Spec2Model ----
(***************************************************************************)
(* Model of sys_stat.py: main() enumerates the members of a group with one *)
(* external command, fans get_user_stats out over the entries with         *)
(* asyncio.gather, and prints the surviving UserStat records.              *)
(*                                                                         *)
(* Text is modelled as a sequence of symbols.  The group-membership and    *)
(* identity outputs are sequences of characters.  The process-table output *)
(* is a sequence of words and newline marks: a word is the decimal text of *)
(* an integer (INT), a text with a decimal point (DEC, counted in halves   *)
(* so that every float sum is exact) or a non-numeric text (WORD).         *)
(* Floats are represented by their value in halves.                        *)
(***************************************************************************)
EXTENDS Integers, Sequences, FiniteSets, TLC

\* ---------------------------------------------------------------- bounds
MaxGroupLen == 3
MaxPsLen == 7
MaxEnumLen == 5

\* ------------------------------------------------------------ Python values
None == [type |-> "None"]
ValueError == [type |-> "ValueError"]
Str(s) == [type |-> "str", s |-> s]

\* The symbols of a process-table output.
INT(n) == [kind |-> "int", v |-> n]
DEC(h) == [kind |-> "dec", v |-> h]
WORD == [kind |-> "word", v |-> 0]
NL == [kind |-> "nl", v |-> 0]

Whitespace == {" ", "\n"}

\* str.strip(): drop the leading and the trailing whitespace symbols.
RECURSIVE LStrip(_, _)
LStrip(s, ws) ==
  IF s # <<>> /\ Head(s) \in ws THEN LStrip(Tail(s), ws) ELSE s

RECURSIVE RStrip(_, _)
RStrip(s, ws) ==
  IF s # <<>> /\ s[Len(s)] \in ws THEN RStrip(SubSeq(s, 1, Len(s) - 1), ws) ELSE s

Strip(s, ws) == RStrip(LStrip(s, ws), ws)

\* str.split(sep): the pieces between the separators; never an empty list.
RECURSIVE Split(_, _)
Split(s, sep) ==
  IF \E i \in 1..Len(s) : s[i] = sep
  THEN LET i == CHOOSE k \in 1..Len(s) :
                  s[k] = sep /\ \A j \in 1..(k - 1) : s[j] # sep
       IN  <<SubSeq(s, 1, i - 1)>> \o Split(SubSeq(s, i + 1, Len(s)), sep)
  ELSE <<s>>

\* int(word) and float(word): whether the conversion succeeds, and its value.
IntOk(w) == w.kind = "int"
IntOf(w) == w.v
FloatOk(w) == w.kind \in {"int", "dec"}
FloatOf(w) == IF w.kind = "int" THEN 2 * w.v ELSE w.v

UserStat(username, upn, rss_total, pmem_total, pcpu_total) ==
  [type |-> "UserStat", username |-> username, upn |-> upn,
   rss_total |-> rss_total, pmem_total |-> pmem_total, pcpu_total |-> pcpu_total]

\* A variant of the loop that adds the second word to the CPU total and the
\* third to the memory total.
RECURSIVE SumLinesSwapped(_, _)
SumLinesSwapped(lines, acc) ==
  IF lines = <<>> THEN acc
  ELSE LET line == Head(lines) IN
       IF Len(line) # 3 THEN ValueError
       ELSE IF ~IntOk(line[1]) THEN ValueError
       ELSE IF ~FloatOk(line[2]) THEN ValueError
       ELSE IF ~FloatOk(line[3]) THEN ValueError
       ELSE SumLinesSwapped(Tail(lines),
                     [rss_total |-> acc.rss_total + IntOf(line[1]),
                      pmem_total |-> acc.pmem_total + FloatOf(line[3]),
                      pcpu_total |-> acc.pcpu_total + FloatOf(line[2])])

\* The loop of get_user_stats: unpack each line into three words, convert and
\* accumulate; the first failing unpack or conversion raises ValueError.
RECURSIVE SumLines(_, _)
SumLines(lines, acc) ==
  IF lines = <<>> THEN acc
  ELSE LET line == Head(lines) IN
       IF Len(line) # 3 THEN ValueError
       ELSE IF ~IntOk(line[1]) THEN ValueError
       ELSE IF ~FloatOk(line[2]) THEN ValueError
       ELSE IF ~FloatOk(line[3]) THEN ValueError
       ELSE SumLines(Tail(lines),
                     [rss_total |-> acc.rss_total + IntOf(line[1]),
                      pmem_total |-> acc.pmem_total + FloatOf(line[2]),
                      pcpu_total |-> acc.pcpu_total + FloatOf(line[3])])

\* The identity handed to the record: upn.strip() if upn else None.
UpnField(upn) ==
  IF upn # None /\ upn.s # <<>> THEN Str(Strip(upn.s, Whitespace)) ELSE None

\* The body of the second try block of get_user_stats once the process-table
\* command has returned process_stats: a UserStat, or the ValueError raised.
ParseStats(username, upn, process_stats) ==
  LET totals == SumLines(Split(Strip(process_stats, {NL}), NL),
                         [rss_total |-> 0, pmem_total |-> 0, pcpu_total |-> 0])
  IN  IF totals = ValueError THEN ValueError
      ELSE UserStat(username, UpnField(upn), totals.rss_total,
                    totals.pmem_total, totals.pcpu_total)

\* ------------------------------------------------------------- rendering
\* f"{x:.2f}" of a float given in halves: integer part and two decimals.
Fmt2(h) == [int |-> h \div 2, frac |-> IF h % 2 = 1 THEN 50 ELSE 0]

\* A variant of the row that prints the identity as Python prints it.
to_table_row_plain(stat) ==
  [line |-> "row", username |-> stat.username,
   upn |-> IF stat.upn # None THEN stat.upn.s ELSE <<"N", "o", "n", "e">>,
   rss_total |-> stat.rss_total,
   pmem_total |-> Fmt2(stat.pmem_total), pcpu_total |-> Fmt2(stat.pcpu_total)]

to_table_row(stat) ==
  [line |-> "row", username |-> stat.username,
   upn |-> IF stat.upn # None /\ stat.upn.s # <<>> THEN stat.upn.s
           ELSE <<"n", "o", "n", "e">>,
   rss_total |-> stat.rss_total,
   pmem_total |-> Fmt2(stat.pmem_total), pcpu_total |-> Fmt2(stat.pcpu_total)]

TableHeader == [line |-> "header"]

\* json.dumps of the list of the records' __dict__: None becomes null.
JsonObject(stat) ==
  [username |-> stat.username,
   upn |-> IF stat.upn = None THEN [json |-> "null"] ELSE [json |-> "string", s |-> stat.upn.s],
   rss_total |-> stat.rss_total, pmem_total |-> stat.pmem_total,
   pcpu_total |-> stat.pcpu_total]

print_stats(stats, output_format) ==
  IF output_format = "table"
  THEN <<TableHeader>> \o [k \in 1..Len(stats) |-> to_table_row(stats[k])]
  ELSE IF output_format = "json"
  THEN << [line |-> "json", array |-> [k \in 1..Len(stats) |-> JsonObject(stats[k])]] >>
  ELSE <<>>

\* A variant of the filter that keys the records by username, so that of the
\* records of one username only the last is kept.
RECURSIVE SurvivorsByName(_)
SurvivorsByName(user_stats) ==
  IF user_stats = <<>> THEN <<>>
  ELSE IF /\ Head(user_stats) # None
          /\ \A k \in 2..Len(user_stats) :
               user_stats[k] = None \/ user_stats[k].username # Head(user_stats).username
       THEN <<Head(user_stats)>> \o SurvivorsByName(Tail(user_stats))
       ELSE SurvivorsByName(Tail(user_stats))

\* [stat for stat in user_stats if stat]: a UserStat is always truthy.
RECURSIVE Survivors(_)
Survivors(user_stats) ==
  IF user_stats = <<>> THEN <<>>
  ELSE IF Head(user_stats) # None THEN <<Head(user_stats)>> \o Survivors(Tail(user_stats))
  ELSE Survivors(Tail(user_stats))

\* A variant of the splitting that leaves out the empty entries.
RECURSIVE NonEmpty(_)
NonEmpty(entries) ==
  IF entries = <<>> THEN <<>>
  ELSE IF Head(entries) # <<>> THEN <<Head(entries)>> \o NonEmpty(Tail(entries))
  ELSE NonEmpty(Tail(entries))

UsernamesNonEmpty(out) ==
  LET entries == Split(Strip(out, Whitespace), "\n")
  IN  NonEmpty([k \in 1..Len(entries) |-> Strip(entries[k], Whitespace)])

\* usernames.strip().split("\n") with each entry stripped.
Usernames(out) ==
  LET entries == Split(Strip(out, Whitespace), "\n")
  IN  [k \in 1..Len(entries) |-> Strip(entries[k], Whitespace)]

\* ------------------------------------------------------------------ state
VARIABLES
  pc,             \* where main() is: start, enum, gather, done, failed, usage
  argv,           \* the command-line arguments after the program name
  output_format,  \* args.output_format once parsed
  exit_code,      \* the exit status of the process, -1 while it runs
  group_out,      \* what the group-membership command produced
  group_calls,    \* how often the group-membership command was spawned
  usernames,      \* the entries get_user_stats is launched for, in order
  task_pc,        \* per entry: new, id, ps, returned, raised, cancelled
  upn,            \* per entry: the local variable upn of get_user_stats
  ret,            \* per entry: the value returned or the exception raised
  id_out,         \* per entry: what the identity command produced
  ps_out,         \* per entry: what the process-table command produced
  id_calls,       \* per entry: how often the identity command was spawned
  ps_calls,       \* per entry: how often the process-table command was spawned
  stats,          \* the list handed to print_stats
  printed,        \* the lines written to standard output
  agg_in,         \* a process-table output given to the parsing code alone
  agg_out,        \* what the parsing code made of agg_in
  hung            \* the commands in flight that never return: 0 is the
                  \* group-membership command, i the command of entry i

mainVars == <<pc, argv, output_format, exit_code, group_out, group_calls, stats, printed>>
taskVars == <<usernames, task_pc, upn, ret, id_out, ps_out, id_calls, ps_calls>>
aggVars == <<agg_in, agg_out>>
vars == <<mainVars, taskVars, aggVars, hung>>

NotRun == [type |-> "NotRun"]
CommandRunException == [type |-> "CommandRunException"]
Cancelled == [type |-> "CancelledError"]

\* -------------------------------------------------- what the environment does
Texts(alphabet, n) == UNION {[1..k -> alphabet] : k \in 0..n}

ArgvSet == {<<>>, <<"json">>, <<"xml">>}
GroupTexts == Texts({"a", "b", " ", "\n"}, MaxGroupLen)
UpnTexts == {<<>>, <<" ">>, <<"u", "\n">>}
PsWords == {INT(1), INT(2), DEC(1), WORD}
PsTexts == Texts(PsWords \cup {NL}, MaxPsLen)
PsSamples ==
  { <<>>,
    <<INT(2), DEC(1), INT(1), NL>>,
    <<INT(1), INT(1), DEC(1), NL, INT(2), DEC(1), INT(2), NL>>,
    <<INT(1), WORD, INT(2), NL>> }

Tasks == DOMAIN task_pc
Finished(i) == task_pc[i] \in {"returned", "raised", "cancelled"}

Init ==
  /\ pc = "start"
  /\ argv \in ArgvSet
  /\ output_format = ""
  /\ exit_code = -1
  /\ group_out = NotRun
  /\ group_calls = 0
  /\ usernames = <<>>
  /\ task_pc = <<>>
  /\ upn = <<>>
  /\ ret = <<>>
  /\ id_out = <<>>
  /\ ps_out = <<>>
  /\ id_calls = <<>>
  /\ ps_calls = <<>>
  /\ stats = <<>>
  /\ printed = <<>>
  /\ agg_in = <<>>
  /\ agg_out = NotRun
  /\ hung = {}

\* ------------------------------------------------------------------ main()
\* A variant of the first step that also launches a collection for a
\* remembered member without waiting for the group-membership command.
main_parse_args_eager ==
  /\ pc = "start"
  /\ IF argv # <<>> /\ argv[1] \notin {"table", "json"}
     THEN /\ pc' = "usage"
          /\ exit_code' = 2
          /\ UNCHANGED <<output_format, group_calls, taskVars>>
     ELSE /\ output_format' = IF argv = <<>> THEN "table" ELSE argv[1]
          /\ pc' = "enum"
          /\ group_calls' = group_calls + 1
          /\ usernames' = << <<"a">> >>
          /\ task_pc' = <<"new">>
          /\ upn' = <<None>>
          /\ ret' = <<None>>
          /\ id_out' = <<NotRun>>
          /\ ps_out' = <<NotRun>>
          /\ id_calls' = <<0>>
          /\ ps_calls' = <<0>>
          /\ UNCHANGED exit_code
  /\ UNCHANGED <<argv, group_out, stats, printed>>
  /\ UNCHANGED <<aggVars, hung>>

\* A variant of the first step whose parser accepts any output_format.
main_parse_args_any ==
  /\ pc = "start"
  /\ output_format' = IF argv = <<>> THEN "table" ELSE argv[1]
  /\ pc' = "enum"
  /\ group_calls' = group_calls + 1
  /\ UNCHANGED <<argv, exit_code, group_out, stats, printed>>
  /\ UNCHANGED <<taskVars, aggVars, hung>>

\* parser.parse_args(), then the group-membership command is spawned and
\* main suspends on it.  A value outside the choices makes argparse exit 2.
main_parse_args ==
  /\ pc = "start"
  /\ IF argv # <<>> /\ argv[1] \notin {"table", "json"}
     THEN /\ pc' = "usage"
          /\ exit_code' = 2
          /\ UNCHANGED <<output_format, group_calls>>
     ELSE /\ output_format' = IF argv = <<>> THEN "table" ELSE argv[1]
          /\ pc' = "enum"
          /\ group_calls' = group_calls + 1
          /\ UNCHANGED exit_code
  /\ UNCHANGED <<argv, group_out, stats, printed>>
  /\ UNCHANGED <<taskVars, aggVars, hung>>

\* A variant that catches the failure of the group-membership command and
\* goes on as if its output were empty.
main_enum_fail_swallowed ==
  /\ pc = "enum"
  /\ group_out' = CommandRunException
  /\ usernames' = Usernames(<<>>)
  /\ task_pc' = [k \in 1..Len(usernames') |-> "new"]
  /\ upn' = [k \in 1..Len(usernames') |-> None]
  /\ ret' = [k \in 1..Len(usernames') |-> None]
  /\ id_out' = [k \in 1..Len(usernames') |-> NotRun]
  /\ ps_out' = [k \in 1..Len(usernames') |-> NotRun]
  /\ id_calls' = [k \in 1..Len(usernames') |-> 0]
  /\ ps_calls' = [k \in 1..Len(usernames') |-> 0]
  /\ pc' = "gather"
  /\ UNCHANGED <<argv, output_format, exit_code, group_calls, stats, printed>>
  /\ UNCHANGED <<aggVars, hung>>

\* A variant that spawns the group-membership command a second time when its
\* first run fails.
main_enum_fail_retry ==
  /\ pc = "enum"
  /\ IF group_calls < 2
     THEN /\ group_calls' = group_calls + 1
          /\ UNCHANGED <<pc, exit_code, group_out>>
     ELSE /\ group_out' = CommandRunException
          /\ pc' = "failed"
          /\ exit_code' = 1
          /\ UNCHANGED group_calls
  /\ UNCHANGED <<argv, output_format, stats, printed>>
  /\ UNCHANGED <<taskVars, aggVars, hung>>

\* The group-membership command exits non-zero: run_command raises
\* CommandRunException, nothing in main catches it, asyncio.run re-raises.
main_enum_fail ==
  /\ pc = "enum"
  /\ 0 \notin hung
  /\ group_out' = CommandRunException
  /\ pc' = "failed"
  /\ exit_code' = 1
  /\ UNCHANGED <<argv, output_format, group_calls, stats, printed>>
  /\ UNCHANGED <<taskVars, aggVars, hung>>

\* The group-membership command exits zero with output out: gather wraps one
\* get_user_stats coroutine per entry in a task and main suspends on them.
main_enum_ok(out) ==
  /\ pc = "enum"
  /\ 0 \notin hung
  /\ group_out' = Str(out)
  /\ usernames' = Usernames(out)
  /\ task_pc' = [k \in 1..Len(usernames') |-> "new"]
  /\ upn' = [k \in 1..Len(usernames') |-> None]
  /\ ret' = [k \in 1..Len(usernames') |-> None]
  /\ id_out' = [k \in 1..Len(usernames') |-> NotRun]
  /\ ps_out' = [k \in 1..Len(usernames') |-> NotRun]
  /\ id_calls' = [k \in 1..Len(usernames') |-> 0]
  /\ ps_calls' = [k \in 1..Len(usernames') |-> 0]
  /\ pc' = "gather"
  /\ UNCHANGED <<argv, output_format, exit_code, group_calls, stats, printed>>
  /\ UNCHANGED <<aggVars, hung>>

\* ------------------------------------------------------- get_user_stats(i)
\* A variant of the first step that spawns both commands of the entry at once.
task_start_both(i) ==
  /\ task_pc[i] = "new"
  /\ task_pc' = [task_pc EXCEPT ![i] = "id"]
  /\ id_calls' = [id_calls EXCEPT ![i] = @ + 1]
  /\ ps_calls' = [ps_calls EXCEPT ![i] = @ + 1]
  /\ UNCHANGED <<usernames, upn, ret, id_out, ps_out>>
  /\ UNCHANGED <<mainVars, aggVars, hung>>

\* First step of the task: the identity command is spawned.
task_start(i) ==
  /\ task_pc[i] = "new"
  /\ task_pc' = [task_pc EXCEPT ![i] = "id"]
  /\ id_calls' = [id_calls EXCEPT ![i] = @ + 1]
  /\ UNCHANGED <<usernames, upn, ret, id_out, ps_out, ps_calls>>
  /\ UNCHANGED <<mainVars, aggVars, hung>>

\* The identity command exits zero with output out; the process-table
\* command is spawned next.
task_identity_ok(i, out) ==
  /\ task_pc[i] = "id"
  /\ i \notin hung
  /\ id_out' = [id_out EXCEPT ![i] = Str(out)]
  /\ upn' = [upn EXCEPT ![i] = Str(out)]
  /\ task_pc' = [task_pc EXCEPT ![i] = "ps"]
  /\ ps_calls' = [ps_calls EXCEPT ![i] = @ + 1]
  /\ UNCHANGED <<usernames, ret, ps_out, id_calls>>
  /\ UNCHANGED <<mainVars, aggVars, hung>>

\* A variant that falls back to the username when the identity command fails.
task_identity_fail_fallback(i) ==
  /\ task_pc[i] = "id"
  /\ id_out' = [id_out EXCEPT ![i] = CommandRunException]
  /\ upn' = [upn EXCEPT ![i] = Str(usernames[i])]
  /\ task_pc' = [task_pc EXCEPT ![i] = "ps"]
  /\ ps_calls' = [ps_calls EXCEPT ![i] = @ + 1]
  /\ UNCHANGED <<usernames, ret, ps_out, id_calls>>
  /\ UNCHANGED <<mainVars, aggVars, hung>>

\* The identity command exits non-zero: CommandRunException is caught and
\* upn is None; the process-table command is spawned next.
task_identity_fail(i) ==
  /\ task_pc[i] = "id"
  /\ i \notin hung
  /\ id_out' = [id_out EXCEPT ![i] = CommandRunException]
  /\ upn' = [upn EXCEPT ![i] = None]
  /\ task_pc' = [task_pc EXCEPT ![i] = "ps"]
  /\ ps_calls' = [ps_calls EXCEPT ![i] = @ + 1]
  /\ UNCHANGED <<usernames, ret, ps_out, id_calls>>
  /\ UNCHANGED <<mainVars, aggVars, hung>>

\* A variant that answers a failed process-table command with a record of
\* zero totals.
task_ps_fail_zero_record(i) ==
  /\ task_pc[i] = "ps"
  /\ ps_out' = [ps_out EXCEPT ![i] = CommandRunException]
  /\ ret' = [ret EXCEPT ![i] = UserStat(usernames[i], UpnField(upn[i]), 0, 0, 0)]
  /\ task_pc' = [task_pc EXCEPT ![i] = "returned"]
  /\ UNCHANGED <<usernames, upn, id_out, id_calls, ps_calls>>
  /\ UNCHANGED <<mainVars, aggVars, hung>>

\* The process-table command exits non-zero: CommandRunException is caught
\* and the coroutine returns None.
task_ps_fail(i) ==
  /\ task_pc[i] = "ps"
  /\ i \notin hung
  /\ ps_out' = [ps_out EXCEPT ![i] = CommandRunException]
  /\ ret' = [ret EXCEPT ![i] = None]
  /\ task_pc' = [task_pc EXCEPT ![i] = "returned"]
  /\ UNCHANGED <<usernames, upn, id_out, id_calls, ps_calls>>
  /\ UNCHANGED <<mainVars, aggVars, hung>>

\* The process-table command exits zero with output out: the lines are
\* parsed and summed.  A ValueError is not a CommandRunException, so it
\* leaves the coroutine and becomes the exception of the task.
task_ps_ok(i, out) ==
  /\ task_pc[i] = "ps"
  /\ i \notin hung
  /\ ps_out' = [ps_out EXCEPT ![i] = Str(out)]
  /\ LET r == ParseStats(usernames[i], upn[i], out) IN
       /\ ret' = [ret EXCEPT ![i] = r]
       /\ task_pc' = [task_pc EXCEPT ![i] = IF r = ValueError THEN "raised" ELSE "returned"]
  /\ UNCHANGED <<usernames, upn, id_out, id_calls, ps_calls>>
  /\ UNCHANGED <<mainVars, aggVars, hung>>

\* The environment: the command main (c = 0) or entry c is suspended on never
\* exits, so process.communicate() never completes.
command_hangs(c) ==
  /\ c \notin hung
  /\ IF c = 0 THEN pc = "enum" ELSE c \in Tasks /\ task_pc[c] \in {"id", "ps"}
  /\ hung' = hung \cup {c}
  /\ UNCHANGED <<mainVars, taskVars, aggVars>>

\* --------------------------------------------------------- gather and after
\* A variant of the join that prints as soon as one collection has returned.
main_gather_done_early ==
  /\ pc = "gather"
  /\ \E i \in Tasks : task_pc[i] = "returned"
  /\ \A i \in Tasks : task_pc[i] # "raised"
  /\ stats' = Survivors(ret)
  /\ printed' = print_stats(stats', output_format)
  /\ pc' = "done"
  /\ exit_code' = 0
  /\ UNCHANGED <<argv, output_format, group_out, group_calls>>
  /\ UNCHANGED <<taskVars, aggVars, hung>>

\* A variant of the join that stops waiting for the commands that hang and
\* prints what the other collections returned.
main_gather_done_partial ==
  /\ pc = "gather"
  /\ \A i \in Tasks : task_pc[i] = "returned" \/ i \in hung
  /\ stats' = Survivors(ret)
  /\ printed' = print_stats(stats', output_format)
  /\ pc' = "done"
  /\ exit_code' = 0
  /\ UNCHANGED <<argv, output_format, group_out, group_calls>>
  /\ UNCHANGED <<taskVars, aggVars, hung>>

\* Every task has returned: gather hands main the results in the order of
\* its arguments and main prints the records among them.
main_gather_done ==
  /\ pc = "gather"
  /\ \A i \in Tasks : task_pc[i] = "returned"
  /\ stats' = Survivors(ret)
  /\ printed' = print_stats(stats', output_format)
  /\ pc' = "done"
  /\ exit_code' = 0
  /\ UNCHANGED <<argv, output_format, group_out, group_calls>>
  /\ UNCHANGED <<taskVars, aggVars, hung>>

\* A variant of the failure that prints the records returned so far before
\* the exception ends the run.
main_gather_raise_partial ==
  /\ pc = "gather"
  /\ \E i \in Tasks : task_pc[i] = "raised"
  /\ task_pc' = [k \in Tasks |-> IF Finished(k) THEN task_pc[k] ELSE "cancelled"]
  /\ ret' = [k \in Tasks |-> IF Finished(k) THEN ret[k] ELSE Cancelled]
  /\ stats' = Survivors([k \in Tasks |-> IF task_pc[k] = "returned" THEN ret[k] ELSE None])
  /\ printed' = print_stats(stats', output_format)
  /\ pc' = "failed"
  /\ exit_code' = 1
  /\ UNCHANGED <<argv, output_format, group_out, group_calls>>
  /\ UNCHANGED <<usernames, upn, id_out, ps_out, id_calls, ps_calls>>
  /\ UNCHANGED <<aggVars, hung>>

\* A task has raised: gather (return_exceptions=False) passes the exception
\* to main, which does not catch it; asyncio.run cancels the tasks that are
\* still pending and re-raises.
main_gather_raise ==
  /\ pc = "gather"
  /\ \E i \in Tasks : task_pc[i] = "raised"
  /\ task_pc' = [k \in Tasks |-> IF Finished(k) THEN task_pc[k] ELSE "cancelled"]
  /\ ret' = [k \in Tasks |-> IF Finished(k) THEN ret[k] ELSE Cancelled]
  /\ pc' = "failed"
  /\ exit_code' = 1
  /\ UNCHANGED <<argv, output_format, group_out, group_calls, stats, printed>>
  /\ UNCHANGED <<usernames, upn, id_out, ps_out, id_calls, ps_calls>>
  /\ UNCHANGED <<aggVars, hung>>

Next ==
  \/ main_parse_args
  \/ main_enum_fail
  \/ \E out \in GroupTexts : main_enum_ok(out)
  \/ \E i \in Tasks : task_start(i)
  \/ \E i \in Tasks : \E out \in UpnTexts : task_identity_ok(i, out)
  \/ \E i \in Tasks : task_identity_fail(i)
  \/ \E i \in Tasks : task_ps_fail(i)
  \/ \E i \in Tasks : \E out \in PsSamples : task_ps_ok(i, out)
  \/ main_gather_done
  \/ main_gather_raise

Spec == Init /\ [][Next]_vars

\* ------------------------------------------------- runs with hanging commands
\* The steps of the program: the event loop runs every callback that is
\* ready, and a command that exits is reaped.
LiveGroupTexts == {<<>>, <<"a">>, <<"a", "\n", "b">>}

Step ==
  \/ main_parse_args
  \/ main_enum_fail
  \/ \E out \in LiveGroupTexts : main_enum_ok(out)
  \/ \E i \in Tasks : task_start(i)
  \/ \E i \in Tasks : \E out \in UpnTexts : task_identity_ok(i, out)
  \/ \E i \in Tasks : task_identity_fail(i)
  \/ \E i \in Tasks : task_ps_fail(i)
  \/ \E i \in Tasks : \E out \in PsSamples : task_ps_ok(i, out)
  \/ main_gather_done
  \/ main_gather_raise

LiveNext ==
  \/ Step
  \/ \E c \in {0} \cup Tasks : command_hangs(c)

LiveSpec == Init /\ [][LiveNext]_vars /\ WF_vars(Step)

\* ------------------------------------------- the parsing code on its own
AggInit ==
  /\ pc = "start"
  /\ argv = <<>>
  /\ output_format = ""
  /\ exit_code = -1
  /\ group_out = NotRun
  /\ group_calls = 0
  /\ usernames = <<>>
  /\ task_pc = <<>>
  /\ upn = <<>>
  /\ ret = <<>>
  /\ id_out = <<>>
  /\ ps_out = <<>>
  /\ id_calls = <<>>
  /\ ps_calls = <<>>
  /\ stats = <<>>
  /\ printed = <<>>
  /\ agg_in \in PsTexts
  /\ agg_out = NotRun
  /\ hung = {}

agg_apply ==
  /\ agg_out = NotRun
  /\ agg_out' = ParseStats(<<"a">>, None, agg_in)
  /\ UNCHANGED <<agg_in, mainVars, taskVars, hung>>

AggNext == agg_apply

AggSpec == AggInit /\ [][AggNext]_vars

\* ------------------------------------------------ the enumeration on its own
\* main() suspended on the group-membership command, which may answer with
\* any text of up to MaxEnumLen characters.
EnumTexts == Texts({"a", "b", " ", "\n"}, MaxEnumLen)

EnumInit ==
  /\ pc = "enum"
  /\ argv = <<>>
  /\ output_format = "table"
  /\ exit_code = -1
  /\ group_out = NotRun
  /\ group_calls = 1
  /\ usernames = <<>>
  /\ task_pc = <<>>
  /\ upn = <<>>
  /\ ret = <<>>
  /\ id_out = <<>>
  /\ ps_out = <<>>
  /\ id_calls = <<>>
  /\ ps_calls = <<>>
  /\ stats = <<>>
  /\ printed = <<>>
  /\ agg_in = <<>>
  /\ agg_out = NotRun
  /\ hung = {}

EnumNext == \E out \in EnumTexts : main_enum_ok(out)

EnumSpec == EnumInit /\ [][EnumNext]_vars

\* =================================================================== claims
\* What the claims call the lines of a process-table output: the pieces
\* between the newlines of the output without its surrounding blank lines; an
\* empty output has no line.
ClaimLines(text) ==
  LET t == Strip(text, {NL}) IN IF t = <<>> THEN <<>> ELSE Split(t, NL)

\* A line is well formed when it has exactly three words, an integer and two
\* numbers.
WellFormedLine(l) ==
  /\ Len(l) = 3
  /\ l[1].kind = "int"
  /\ l[2].kind \in {"int", "dec"}
  /\ l[3].kind \in {"int", "dec"}

WellFormed(text) ==
  \A k \in 1..Len(ClaimLines(text)) : WellFormedLine(ClaimLines(text)[k])

HalvesOf(w) == IF w.kind = "int" THEN w.v + w.v ELSE w.v

RECURSIVE SumRss(_)
SumRss(lines) ==
  IF lines = <<>> THEN 0 ELSE Head(lines)[1].v + SumRss(Tail(lines))

RECURSIVE SumHalves(_, _)
SumHalves(lines, col) ==
  IF lines = <<>> THEN 0 ELSE HalvesOf(Head(lines)[col]) + SumHalves(Tail(lines), col)

Enumerated == group_out.type = "str"
Terminal == pc \in {"done", "failed", "usage"}
PsFailed(i) == ps_out[i] = CommandRunException
PsSucceeded(i) == ps_out[i].type = "str"
IdFailed(i) == id_out[i] = CommandRunException
IdSucceeded(i) == id_out[i].type = "str"
HasRecord(i) == task_pc[i] = "returned" /\ ret[i].type = "UserStat"
Malformed(i) == PsSucceeded(i) /\ ~WellFormed(ps_out[i].s)

\* The record the spec expects of entry i: none when the process-table
\* command failed or a line is malformed, else the sums over its lines.
ExpectedRecord(i) ==
  IF PsSucceeded(i) /\ WellFormed(ps_out[i].s)
  THEN UserStat(usernames[i], UpnField(upn[i]),
                SumRss(ClaimLines(ps_out[i].s)),
                SumHalves(ClaimLines(ps_out[i].s), 2),
                SumHalves(ClaimLines(ps_out[i].s), 3))
  ELSE None

\* The k-th smallest element of a set of indices.
Kth(S, k) == CHOOSE i \in S : Cardinality({j \in S : j <= i}) = k

\* C1: once the members are enumerated and the process-table command of some
\* entry has failed, the run ends with its report rendered, the failing
\* entries have no record in the list handed to the renderer, and the list
\* holds, in order, exactly the records the other entries yield on their own.
C1_FailureIndependence ==
  (Terminal /\ Enumerated /\ \E i \in Tasks : PsFailed(i)) =>
    /\ pc = "done"
    /\ \A i \in Tasks : PsFailed(i) => ret[i] = None
    /\ stats = Survivors([i \in Tasks |-> ExpectedRecord(i)])

\* C2: an entry whose process-table command succeeded with a malformed line
\* yields no record without raising, the run goes on to render its report,
\* and the report then holds the records of the well-formed entries.
C2_MalformedSwallowed ==
  /\ \A i \in Tasks : Malformed(i) => task_pc[i] = "returned" /\ ret[i] = None
  /\ (Terminal /\ Enumerated) =>
       /\ pc = "done"
       /\ stats = Survivors([i \in Tasks |-> ExpectedRecord(i)])

\* C3: the list handed to the renderer is the subsequence of the entries
\* whose collection returned a record, in input order, one record per entry,
\* each carrying the username of its entry.
C3_StableOrder ==
  pc = "done" =>
    LET S == {i \in Tasks : HasRecord(i)} IN
      /\ Len(stats) = Cardinality(S)
      /\ \A k \in 1..Len(stats) :
           /\ stats[k] = ret[Kth(S, k)]
           /\ stats[k].username = usernames[Kth(S, k)]

C3_Witness ==
  /\ pc = "done"
  /\ Len(stats) = 2
  /\ stats[1].username # stats[2].username
  /\ stats[1].rss_total # stats[2].rss_total

\* C4: an entry whose identity command failed and whose process-table command
\* returned at least one line, all well formed, has a record with identity
\* None; a record carries an identity only if the identity command of its
\* entry succeeded; whether a finished collection has a record depends on the
\* process-table output alone.
C4_IdentityLocal ==
  \A i \in Tasks :
    /\ (IdFailed(i) /\ PsSucceeded(i) /\ WellFormed(ps_out[i].s)
          /\ ClaimLines(ps_out[i].s) # <<>>)
         => (HasRecord(i) /\ ret[i].upn = None)
    /\ (HasRecord(i) /\ ret[i].upn # None) => IdSucceeded(i)
    /\ task_pc[i] \in {"returned", "raised"} =>
         (HasRecord(i) <=> (PsSucceeded(i) /\ WellFormed(ps_out[i].s)
                              /\ ClaimLines(ps_out[i].s) # <<>>))

C4_Witness ==
  \E i \in Tasks : IdFailed(i) /\ HasRecord(i) /\ ret[i].upn = None

\* C5: when the group-membership command has failed the run has ended with a
\* non-zero exit status, no collection exists, no identity or process-table
\* command was spawned, and nothing was printed.
C5_EnumerationFatal ==
  group_out = CommandRunException =>
    /\ pc = "failed"
    /\ exit_code > 0
    /\ Tasks = {}
    /\ \A i \in DOMAIN id_calls : id_calls[i] = 0
    /\ \A i \in DOMAIN ps_calls : ps_calls[i] = 0
    /\ printed = <<>>

C5_Witness ==
  group_out = CommandRunException /\ Terminal /\ group_calls = 1

\* C6: a per-entry command has been spawned only after the group-membership
\* command returned its output, and while the group-membership command is in
\* flight no per-entry command is in flight.
C6_TwoPhase ==
  /\ \A i \in Tasks :
       (id_calls[i] > 0 \/ ps_calls[i] > 0 \/ task_pc[i] # "new") => Enumerated
  /\ pc = "enum" => \A i \in Tasks : task_pc[i] \notin {"id", "ps"}
  /\ pc = "start" => Tasks = {}

C6_Witness ==
  /\ Enumerated
  /\ group_calls = 1
  /\ \E i \in Tasks : task_pc[i] = "id" /\ id_calls[i] = 1

\* C7: whenever the parsing code yields a record, its resident-memory total
\* is the sum of the first words of the lines and its memory and CPU totals
\* are the sums of the second and third words; and it yields a record for
\* every output of at least one line whose lines are all well formed.
C7_Aggregation ==
  agg_out # NotRun =>
    /\ agg_out.type = "UserStat" =>
         /\ WellFormed(agg_in)
         /\ agg_out.rss_total = SumRss(ClaimLines(agg_in))
         /\ agg_out.pmem_total = SumHalves(ClaimLines(agg_in), 2)
         /\ agg_out.pcpu_total = SumHalves(ClaimLines(agg_in), 3)
    /\ (WellFormed(agg_in) /\ ClaimLines(agg_in) # <<>>) => agg_out.type = "UserStat"

C7_Witness ==
  /\ agg_out.type = "UserStat"
  /\ Len(ClaimLines(agg_in)) = 2
  /\ agg_out.rss_total = 3
  /\ agg_out.pmem_total = 3
  /\ agg_out.pcpu_total = 5

\* C8: a record exists for an entry only if its process-table command
\* succeeded and every line is well formed; and a process-table command that
\* succeeds with an empty output lets the collection return without raising
\* and does not make the run fail.
C8_RecordExistence ==
  /\ \A i \in Tasks : HasRecord(i) => (PsSucceeded(i) /\ WellFormed(ps_out[i].s))
  /\ \A i \in Tasks :
       (PsSucceeded(i) /\ ps_out[i].s = <<>>) => task_pc[i] = "returned"
  /\ (pc = "failed" /\ Enumerated) =>
       \E i \in Tasks : PsSucceeded(i) /\ ps_out[i].s # <<>> /\ task_pc[i] = "raised"

\* C9: the collection of an entry has returned no record exactly when its
\* process-table command failed, whatever its identity command did; and a
\* rendered report lacks exactly the entries whose process-table command
\* failed.
C9_OnlyPsFailureDrops ==
  /\ \A i \in Tasks :
       PsFailed(i) <=> (task_pc[i] = "returned" /\ ret[i] = None)
  /\ pc = "done" =>
       Len(stats) = Cardinality({i \in Tasks : ~PsFailed(i)})

C9_Witness ==
  /\ pc = "done"
  /\ \E i \in Tasks : PsFailed(i) /\ IdSucceeded(i)
  /\ \E i \in Tasks : IdFailed(i) /\ HasRecord(i)

\* C10: the process-table command of an entry has been spawned only once the
\* identity command of that entry has finished, and never while it is in
\* flight; commands of different entries may be in flight together.
C10_PerUserSequencing ==
  \A i \in Tasks :
    /\ ps_calls[i] > 0 => id_out[i] # NotRun
    /\ task_pc[i] \in {"new", "id"} => ps_calls[i] = 0
    /\ task_pc[i] = "ps" => (id_calls[i] = 1 /\ ps_calls[i] = 1)

\* Commands of two entries in flight at once, the later entry ahead.
C10_Witness ==
  \E i, j \in Tasks : i < j /\ task_pc[i] = "id" /\ task_pc[j] = "ps"

\* C11 as stated: in every ended run the group-membership command was spawned
\* exactly once and each entry's identity and process-table command at most
\* once.
C11_ExactlyOnce ==
  Terminal =>
    /\ group_calls = 1
    /\ \A i \in Tasks : id_calls[i] <= 1 /\ ps_calls[i] <= 1

\* C11 amended: the group-membership command is never spawned twice; it has
\* been spawned exactly once as soon as the arguments are parsed and never in
\* a run that ends with a usage error; each entry's identity and
\* process-table command is spawned at most once, exactly once when it has
\* produced an outcome, whatever that outcome is.
C11_NoRetry ==
  /\ group_calls <= 1
  /\ pc \in {"enum", "gather", "done", "failed"} => group_calls = 1
  /\ pc \in {"start", "usage"} => group_calls = 0
  /\ \A i \in Tasks :
       /\ id_calls[i] <= 1 /\ ps_calls[i] <= 1
       /\ id_out[i] # NotRun => id_calls[i] = 1
       /\ ps_out[i] # NotRun => ps_calls[i] = 1

C11_Witness ==
  /\ pc = "done"
  /\ group_calls = 1
  /\ \E i \in Tasks : IdFailed(i) /\ PsFailed(i) /\ id_calls[i] = 1 /\ ps_calls[i] = 1

\* The newline-separated pieces of a text, each trimmed.
RawEntries(out) ==
  LET p == Split(out, "\n") IN [k \in 1..Len(p) |-> Strip(p[k], Whitespace)]

\* C12 as stated: one collection is launched per newline-separated entry of
\* the group-membership output, each entry trimmed, the empty entries
\* (leading and trailing ones too) included.
C12_NoFiltering ==
  Enumerated =>
    /\ usernames = RawEntries(group_out.s)
    /\ DOMAIN task_pc = 1..Len(RawEntries(group_out.s))

\* C12 amended: one collection is launched per trimmed entry from the first
\* non-empty entry to the last, the empty entries between them included; an
\* output with no non-empty entry launches one collection for the empty
\* username.
C12_SplitTrimmed ==
  Enumerated =>
    LET e == RawEntries(group_out.s)
        N == {k \in 1..Len(e) : e[k] # <<>>}
        lo == CHOOSE k \in N : \A j \in N : k <= j
        hi == CHOOSE k \in N : \A j \in N : j <= k
    IN  /\ usernames = IF N = {} THEN << <<>> >> ELSE SubSeq(e, lo, hi)
        /\ DOMAIN task_pc = 1..Len(usernames)
        /\ \A k \in DOMAIN task_pc : task_pc[k] = "new" /\ id_calls[k] = 0

C12_Witness ==
  /\ Enumerated
  /\ group_out.s = <<"\n", "a", "\n", "\n", "b">>
  /\ usernames = << <<"a">>, <<>>, <<"b">> >>
  /\ DOMAIN task_pc = 1..3

\* C13: a run whose output_format argument is neither table nor json ends
\* with a non-zero exit status, and in no state of it has any command been
\* spawned, any collection been created or anything been printed.
BadFormat == argv # <<>> /\ argv[1] \notin {"table", "json"}

C13_UsageErrorFirst ==
  /\ BadFormat =>
       /\ pc \in {"start", "usage"}
       /\ group_calls = 0
       /\ group_out = NotRun
       /\ Tasks = {}
       /\ printed = <<>>
  /\ pc = "usage" => (BadFormat /\ exit_code > 0)

C13_Witness ==
  pc = "usage" /\ argv = <<"xml">> /\ exit_code = 2

\* C14: a rendered report in table mode is the header line followed by one
\* row per record in list order, an absent identity shown as none; in json
\* mode it is one array with one object per record in list order, an absent
\* identity serialized as null; the run that rendered ended without failure.
NoneText == <<"n", "o", "n", "e">>

C14_RendererShape ==
  pc = "done" =>
    /\ exit_code = 0
    /\ output_format \in {"table", "json"}
    /\ output_format = "table" =>
         /\ Len(printed) = Len(stats) + 1
         /\ printed[1] = TableHeader
         /\ \A k \in 1..Len(stats) :
              /\ printed[k + 1].line = "row"
              /\ printed[k + 1].username = stats[k].username
              /\ printed[k + 1].rss_total = stats[k].rss_total
              /\ printed[k + 1].pmem_total.int * 2 + printed[k + 1].pmem_total.frac \div 50
                   = stats[k].pmem_total
              /\ printed[k + 1].pcpu_total.int * 2 + printed[k + 1].pcpu_total.frac \div 50
                   = stats[k].pcpu_total
              /\ stats[k].upn = None => printed[k + 1].upn = NoneText
    /\ output_format = "json" =>
         /\ Len(printed) = 1
         /\ printed[1].line = "json"
         /\ Len(printed[1].array) = Len(stats)
         /\ \A k \in 1..Len(stats) :
              /\ printed[1].array[k].username = stats[k].username
              /\ printed[1].array[k].rss_total = stats[k].rss_total
              /\ printed[1].array[k].pmem_total = stats[k].pmem_total
              /\ printed[1].array[k].pcpu_total = stats[k].pcpu_total
              /\ stats[k].upn = None => printed[1].array[k].upn.json = "null"

C14_Witness ==
  /\ pc = "done"
  /\ output_format = "table"
  /\ Len(printed) = 3
  /\ stats[1].upn = None
  /\ printed[2].upn = NoneText
  /\ stats[2].upn # None

\* C15: a run none of whose commands hangs eventually ends (report printed,
\* failure or usage error); and once a command hangs for ever the report is
\* never printed, whatever the other collections have returned.
C15_TerminationAndHang ==
  /\ [](hung = {}) => <>Terminal
  /\ [](hung # {} => [](pc # "done" /\ printed = <<>>))

\* One command hangs while the collection of the other entry has returned
\* its record.
C15_Witness ==
  /\ pc = "gather"
  /\ \E i, j \in Tasks : i \in hung /\ task_pc[i] = "ps" /\ HasRecord(j)
  /\ printed = <<>>

\* C16: something is printed only in a run that has rendered, and then every
\* collection has returned and no per-entry command is in flight; once the
\* report is printed neither it nor the list handed to the renderer changes
\* again.
C16_JoinBarrier ==
  /\ [](printed # <<>> =>
          /\ pc = "done"
          /\ \A i \in Tasks : task_pc[i] = "returned" /\ ps_out[i] # NotRun)
  /\ [](pc = "done" => printed # <<>>)
  /\ [][pc = "done" => UNCHANGED <<pc, stats, printed, task_pc>>]_vars

C16_Witness ==
  /\ pc = "done"
  /\ output_format = "json"
  /\ Len(task_pc) = 2
  /\ \A i \in Tasks : task_pc[i] = "returned"
  /\ Len(printed) = 1

\* C17: when a run has ended, either nothing is printed, or the run has
\* rendered and the report has, in input order, exactly one row or object
\* for every entry whose process-table command succeeded with well-formed
\* output; a run that ended in failure has printed nothing.
Due == {i \in Tasks : PsSucceeded(i) /\ WellFormed(ps_out[i].s)}

C17_AllOrNothing ==
  Terminal =>
    /\ pc # "done" => printed = <<>>
    /\ pc = "done" =>
         /\ \A i \in Due : HasRecord(i)
         /\ output_format = "table" =>
              /\ Len(printed) = Cardinality(Due) + 1
              /\ \A k \in 1..Cardinality(Due) :
                   printed[k + 1].username = usernames[Kth(Due, k)]
         /\ output_format = "json" =>
              /\ Len(printed[1].array) = Cardinality(Due)
              /\ \A k \in 1..Cardinality(Due) :
                   printed[1].array[k].username = usernames[Kth(Due, k)]

\* A run that failed after one collection had returned its record.
C17_Witness ==
  /\ pc = "failed"
  /\ \E i \in Tasks : HasRecord(i)
  /\ printed = <<>>

\* C18: the identity of a record is None exactly when the identity command of
\* its entry failed; when the command succeeded the identity is its trimmed
\* output, empty or not; and the table row shows none exactly when the json
\* object has null.
C18_IdentityPresence ==
  \A i \in Tasks :
    HasRecord(i) =>
      /\ ret[i].upn = None <=> IdFailed(i)
      /\ IdSucceeded(i) => ret[i].upn = Str(Strip(id_out[i].s, Whitespace))
      /\ to_table_row(ret[i]).upn = NoneText <=> JsonObject(ret[i]).upn.json = "null"

====
